---- MODULE Spec2Model ----
(***************************************************************************)
(* Model of the object_reconstruction_node of hbrs_object_reconstruction   *)
(* (src/ros/nodes/object_reconstruction.cpp): the FixOcclusions service    *)
(* callback, the member fields it uses as pipeline state, and the          *)
(* ros::spin() loop of main that dispatches the service calls.             *)
(*                                                                         *)
(* A service call ("run") r has its own locals (program counter, loop      *)
(* index i, candidate_name, response); the member fields m_* are shared by *)
(* every run of the one node instance.  trace[r] is the history of the    *)
(* stage invocations the callback makes for call r, with the artifact name *)
(* handed to the stage and the value the stage returned.                   *)
(***************************************************************************)
EXTENDS Integers, Sequences, FiniteSets, TLC

VARIABLES
  pc,                  \* pc[r]: position of service call r
  i,                   \* i[r]: loop index of the for loop, line 78
  candidate_name,      \* candidate_name[r]: the local std::string, line 63
  response,            \* response[r]: the FixOcclusion::Response of call r
  returned,            \* returned[r]: the bool the callback returned
  m_resulting_cloud,   \* member field, line 105
  m_object_candidates, \* member field, line 99
  m_operating_mesh,    \* member field, line 111
  observer_inbox,      \* published candidate sets the observer has not taken
  trace                \* trace[r]: history of the stage invocations of call r

vars == << pc, i, candidate_name, response, returned,
           m_resulting_cloud, m_object_candidates, m_operating_mesh,
           observer_inbox, trace >>

-----------------------------------------------------------------------------
(* Bounds *)

\* number of FixOcclusions service calls that arrive at the node
MaxRuns == 2

\* largest number of object candidates the extractor returns
MaxCandidates == 2

Runs == 1..MaxRuns

-----------------------------------------------------------------------------
(* Data *)

\* A candidate cloud is abstracted to what decides its meshing: whether it
\* has enough points ("valid") or is too sparse to mesh ("degenerate").
CandidateKinds == {"valid", "degenerate"}

RECURSIVE SeqsUpTo(_, _)
SeqsUpTo(S, n) ==
  IF n = 0 THEN {<<>>}
  ELSE LET shorter == SeqsUpTo(S, n - 1)
       IN  shorter \cup {Append(s, x) : s \in {t \in shorter : Len(t) = n - 1}, x \in S}

\* An accumulated cloud is abstracted to the clusters it contains.
Clouds == SeqsUpTo(CandidateKinds, MaxCandidates)

\* The repair-mode values of the configuration surface (spec 6).  The node
\* has no such setting and reads none: a claim about a repair mode is
\* stated for every value the setting could be given.
RepairModes == {"Skip", "DetectOnly", "DetectAndRepair"}

\* HelperFunctions::SetOutputDirectory(), stored by the constructor
m_output_directory == "out/"

\* a default-constructed PCLMesh: no faces, built from no candidate
DefaultMesh == [source |-> "", faces |-> "none"]

\* the default-constructed response message
DefaultResponse == [success |-> FALSE]

-----------------------------------------------------------------------------
(* The collaborators the callback calls *)

\* PointCloudAccumulator::AccumulatePointClouds returns a PointCloud by
\* value; InsufficientFrames leaves it with nothing to return but an empty
\* cloud.
AccumulatePointClouds(signal, cloud) ==
  IF signal = "InsufficientFrames" THEN <<>> ELSE cloud

\* ObjectCandidateExtractor::ExtractCandidateObjects: one candidate for each
\* cluster of the cloud; an empty sequence when no cluster qualifies.
ExtractCandidateObjects(name, cloud) == cloud

\* HelperFunctions::ConvertCloudToMesh: a candidate below the minimum point
\* count yields an explicitly empty mesh, any other a mesh with faces.
\* The source field records the candidate the mesh was built from.
ConvertCloudToMesh(name, candidate) ==
  [source |-> name,
   faces  |-> IF candidate = "degenerate" THEN "none" ELSE "some"]

-----------------------------------------------------------------------------
(* Artifact names, lines 63, 68, 75, 80 *)

AccumulatedName == m_output_directory \o "01-AccumulatedPointCloud"

DebuggingName == m_output_directory \o "00-Debugging"

\* mutant: the candidate set is numbered after the candidates
CandidatesNameMisnumbered == m_output_directory \o "04-ObjectCandidates"

CandidatesName == m_output_directory \o "02-ObjectCandidates"

\* mutant: the candidate is named with the index after its own
CandidateNameOffByOne(k) ==
  m_output_directory \o "03-ObjectCandidate-" \o ToString(k + 1)

\* mutant: the candidate index is left out of the name
CandidateNameNoIndex(k) == m_output_directory \o "03-ObjectCandidate-"

CandidateName(k) == m_output_directory \o "03-ObjectCandidate-" \o ToString(k)

-----------------------------------------------------------------------------
(* Conditions of the callback and of the dispatch loop *)

InFlight(r) == pc[r] \notin {"unsent", "queued", "returned"}

\* mutant: a queued call is taken up only while no other call is waiting
CanDispatchWhenAlone(r) ==
  /\ pc[r] = "queued"
  /\ \A q \in Runs : ~InFlight(q)
  /\ \A q \in Runs : q # r => pc[q] # "queued"

\* mutant: a spinner with several threads takes up a queued call while
\* another callback is executing
CanDispatchConcurrent(r) ==
  /\ pc[r] = "queued"
  /\ \A q \in Runs : q < r => pc[q] # "queued"

\* ros::spin() serves the callback queue from the one calling thread: the
\* next service call is taken up only when no callback is executing, and
\* calls are taken in arrival order.
CanDispatch(r) ==
  /\ pc[r] = "queued"
  /\ \A q \in Runs : ~InFlight(q)
  /\ \A q \in Runs : q < r => pc[q] # "queued"

\* mutant: the emptiness test is lost
HasCandidatesAlways == TRUE

\* line 71: if( m_object_candidates.size() != 0 )
HasCandidates == Len(m_object_candidates) # 0

\* mutant: the loop ends at the first candidate whose mesh is empty
LoopCondStopOnFail(r) ==
  /\ i[r] < Len(m_object_candidates)
  /\ (i[r] = 0 \/ m_operating_mesh.faces # "none")

\* mutant: the loop ends one candidate early
LoopCondSkipsLast(r) == i[r] + 1 < Len(m_object_candidates)

\* line 78: i < m_object_candidates.size()
LoopCond(r) == i[r] < Len(m_object_candidates)

Event(r, op, name, idx, result) ==
  [run |-> r, op |-> op, name |-> name, idx |-> idx, result |-> result]

-----------------------------------------------------------------------------
Init ==
  /\ pc = [r \in Runs |-> "unsent"]
  /\ i = [r \in Runs |-> 0]
  /\ candidate_name = [r \in Runs |-> ""]
  /\ response = [r \in Runs |-> DefaultResponse]
  /\ returned = [r \in Runs |-> FALSE]
  /\ m_resulting_cloud = <<>>
  /\ m_object_candidates = <<>>
  /\ m_operating_mesh = DefaultMesh
  /\ observer_inbox = 0
  /\ trace = [r \in Runs |-> <<>>]

\* a client calls the FixOcclusions service
Trigger(r) ==
  /\ pc[r] = "unsent"
  /\ \A q \in Runs : q < r => pc[q] # "unsent"
  /\ pc' = [pc EXCEPT ![r] = "queued"]
  /\ UNCHANGED << i, candidate_name, response, returned,
                  m_resulting_cloud, m_object_candidates, m_operating_mesh,
                  trace >>
  /\ UNCHANGED observer_inbox

\* ros::spin() invokes the callback for the call
Dispatch(r) ==
  /\ CanDispatch(r)
  /\ pc' = [pc EXCEPT ![r] = "L63"]
  /\ UNCHANGED << i, candidate_name, response, returned,
                  m_resulting_cloud, m_object_candidates, m_operating_mesh,
                  trace >>
  /\ UNCHANGED observer_inbox

\* lines 63-64
Accumulate(r) ==
  /\ pc[r] = "L63"
  /\ \E signal \in {"ok", "InsufficientFrames"}, cloud \in Clouds :
       /\ m_resulting_cloud' = AccumulatePointClouds(signal, cloud)
       /\ trace' = [trace EXCEPT ![r] = Append(@,
            Event(r, "AccumulatePointClouds", "", 0,
                  [signal |-> signal,
                   cloud  |-> AccumulatePointClouds(signal, cloud)]))]
  /\ candidate_name' = [candidate_name EXCEPT ![r] = AccumulatedName]
  /\ pc' = [pc EXCEPT ![r] = "L66"]
  /\ UNCHANGED << i, response, returned, m_object_candidates,
                  m_operating_mesh >>
  /\ UNCHANGED observer_inbox

\* line 66
WriteAccumulated(r) ==
  /\ pc[r] = "L66"
  /\ trace' = [trace EXCEPT ![r] = Append(@,
       Event(r, "WriteToPCD", candidate_name[r], 0, m_resulting_cloud))]
  /\ pc' = [pc EXCEPT ![r] = "L68"]
  /\ UNCHANGED << i, candidate_name, response, returned,
                  m_resulting_cloud, m_object_candidates, m_operating_mesh >>
  /\ UNCHANGED observer_inbox

\* mutant: the candidates of the run are added to those the member field
\* holds from the run before
ExtractAppends(r) ==
  /\ pc[r] = "L68"
  /\ candidate_name' = [candidate_name EXCEPT ![r] = DebuggingName]
  /\ m_object_candidates' =
       m_object_candidates
         \o ExtractCandidateObjects(DebuggingName, m_resulting_cloud)
  /\ trace' = [trace EXCEPT ![r] = Append(@,
       Event(r, "ExtractCandidateObjects", DebuggingName, 0,
             ExtractCandidateObjects(DebuggingName, m_resulting_cloud)))]
  /\ pc' = [pc EXCEPT ![r] = "L71"]
  /\ UNCHANGED << i, response, returned, m_resulting_cloud,
                  m_operating_mesh >>
  /\ UNCHANGED observer_inbox

\* lines 68-69
Extract(r) ==
  /\ pc[r] = "L68"
  /\ candidate_name' = [candidate_name EXCEPT ![r] = DebuggingName]
  /\ m_object_candidates' =
       ExtractCandidateObjects(DebuggingName, m_resulting_cloud)
  /\ trace' = [trace EXCEPT ![r] = Append(@,
       Event(r, "ExtractCandidateObjects", DebuggingName, 0,
             ExtractCandidateObjects(DebuggingName, m_resulting_cloud)))]
  /\ pc' = [pc EXCEPT ![r] = "L71"]
  /\ UNCHANGED << i, response, returned, m_resulting_cloud,
                  m_operating_mesh >>
  /\ UNCHANGED observer_inbox

\* line 71
Branch(r) ==
  /\ pc[r] = "L71"
  /\ pc' = [pc EXCEPT ![r] = IF HasCandidates THEN "L73" ELSE "L91"]
  /\ UNCHANGED << i, candidate_name, response, returned,
                  m_resulting_cloud, m_object_candidates, m_operating_mesh,
                  trace >>
  /\ UNCHANGED observer_inbox

\* mutant: the publish waits until the observer has taken what was
\* published before
PublishAwaitsObserver(r) ==
  /\ pc[r] = "L73"
  /\ observer_inbox = 0
  /\ observer_inbox' = observer_inbox + 1
  /\ trace' = [trace EXCEPT ![r] = Append(@,
       Event(r, "PublishObjectCandidates", "", 0, m_object_candidates))]
  /\ pc' = [pc EXCEPT ![r] = "L75"]
  /\ UNCHANGED << i, candidate_name, response, returned,
                  m_resulting_cloud, m_object_candidates, m_operating_mesh >>

\* line 73: the candidates are handed to the publisher and the call
\* returns; nothing is read back from the observer
Publish(r) ==
  /\ pc[r] = "L73"
  /\ observer_inbox' = observer_inbox + 1
  /\ trace' = [trace EXCEPT ![r] = Append(@,
       Event(r, "PublishObjectCandidates", "", 0, m_object_candidates))]
  /\ pc' = [pc EXCEPT ![r] = "L75"]
  /\ UNCHANGED << i, candidate_name, response, returned,
                  m_resulting_cloud, m_object_candidates, m_operating_mesh >>

\* lines 75-76, and the initialisation int i = 0 of line 78
WriteCandidates(r) ==
  /\ pc[r] = "L75"
  /\ candidate_name' = [candidate_name EXCEPT ![r] = CandidatesName]
  /\ trace' = [trace EXCEPT ![r] = Append(@,
       Event(r, "WriteMultipleToPCD", CandidatesName, 0, m_object_candidates))]
  /\ i' = [i EXCEPT ![r] = 0]
  /\ pc' = [pc EXCEPT ![r] = "L78"]
  /\ UNCHANGED << response, returned, m_resulting_cloud,
                  m_object_candidates, m_operating_mesh >>
  /\ UNCHANGED observer_inbox

\* lines 78-84: one iteration of the loop.  Line 83, the call of
\* m_occlusion_repair.DetectOcclusion, is commented out: no occlusion
\* stage is invoked, whatever the repair mode.
Mesh(r) ==
  /\ pc[r] = "L78"
  /\ LoopCond(r)
  /\ candidate_name' = [candidate_name EXCEPT ![r] = CandidateName(i[r])]
  /\ m_operating_mesh' =
       ConvertCloudToMesh(CandidateName(i[r]), m_object_candidates[i[r] + 1])
  /\ trace' = [trace EXCEPT ![r] = Append(@,
       Event(r, "ConvertCloudToMesh", CandidateName(i[r]), i[r],
             ConvertCloudToMesh(CandidateName(i[r]),
                                m_object_candidates[i[r] + 1])))]
  /\ i' = [i EXCEPT ![r] = i[r] + 1]
  /\ UNCHANGED << pc, response, returned, m_resulting_cloud,
                  m_object_candidates >>
  /\ UNCHANGED observer_inbox

\* line 78, the loop condition fails
LoopExit(r) ==
  /\ pc[r] = "L78"
  /\ ~LoopCond(r)
  /\ pc' = [pc EXCEPT ![r] = "L86"]
  /\ UNCHANGED << i, candidate_name, response, returned,
                  m_resulting_cloud, m_object_candidates, m_operating_mesh,
                  trace >>
  /\ UNCHANGED observer_inbox

\* lines 86-87
ReturnTrue(r) ==
  /\ pc[r] = "L86"
  /\ response' = [response EXCEPT ![r].success = TRUE]
  /\ returned' = [returned EXCEPT ![r] = TRUE]
  /\ pc' = [pc EXCEPT ![r] = "returned"]
  /\ UNCHANGED << i, candidate_name, m_resulting_cloud,
                  m_object_candidates, m_operating_mesh, trace >>
  /\ UNCHANGED observer_inbox

\* mutant: the else branch reports the call as served
ReturnFalseDelivered(r) ==
  /\ pc[r] = "L91"
  /\ response' = [response EXCEPT ![r].success = FALSE]
  /\ returned' = [returned EXCEPT ![r] = TRUE]
  /\ pc' = [pc EXCEPT ![r] = "returned"]
  /\ UNCHANGED << i, candidate_name, m_resulting_cloud,
                  m_object_candidates, m_operating_mesh, trace >>
  /\ UNCHANGED observer_inbox

\* lines 91-92
ReturnFalse(r) ==
  /\ pc[r] = "L91"
  /\ response' = [response EXCEPT ![r].success = FALSE]
  /\ returned' = [returned EXCEPT ![r] = FALSE]
  /\ pc' = [pc EXCEPT ![r] = "returned"]
  /\ UNCHANGED << i, candidate_name, m_resulting_cloud,
                  m_object_candidates, m_operating_mesh, trace >>
  /\ UNCHANGED observer_inbox

\* the visualization observer takes a published candidate set, if and when
\* it pleases
ObserverTakes ==
  /\ observer_inbox > 0
  /\ observer_inbox' = observer_inbox - 1
  /\ UNCHANGED << pc, i, candidate_name, response, returned,
                  m_resulting_cloud, m_object_candidates, m_operating_mesh,
                  trace >>

\* what ros::spin() and the callback do for call r once it is queued:
\* the callback is invoked, and each of its statements is executed
Serve(r) ==
  \/ Dispatch(r)
  \/ Accumulate(r)
  \/ WriteAccumulated(r)
  \/ Extract(r)
  \/ Branch(r)
  \/ Publish(r)
  \/ WriteCandidates(r)
  \/ Mesh(r)
  \/ LoopExit(r)
  \/ ReturnTrue(r)
  \/ ReturnFalse(r)

Next ==
  \/ ObserverTakes
  \/ \E r \in Runs :
       \/ Trigger(r)
       \/ Dispatch(r)
       \/ Accumulate(r)
       \/ WriteAccumulated(r)
       \/ Extract(r)
       \/ Branch(r)
       \/ Publish(r)
       \/ WriteCandidates(r)
       \/ Mesh(r)
       \/ LoopExit(r)
       \/ ReturnTrue(r)
       \/ ReturnFalse(r)

Spec == Init /\ [][Next]_vars

\* ros::spin() does not stop serving the callback queue, and every stage
\* call of the callback returns; clients need not call, and the observer
\* need not take what is published
FairSpec == Spec /\ \A r \in Runs : WF_vars(Serve(r))

TypeOK ==
  /\ \A r \in Runs : i[r] \in 0..MaxCandidates
  /\ Len(m_object_candidates) <= MaxCandidates

-----------------------------------------------------------------------------
(* Reading the history of a run *)

MeshOps == {"ConvertCloudToMesh"}

OcclusionOps == {"DetectOcclusion", "Repair"}

\* the positions of its trace at which run r invoked one of the stages ops
EventsOf(r, ops) ==
  {k \in 1..Len(trace[r]) : trace[r][k].op \in ops}

Done(r) == pc[r] = "returned"

HasExtracted(r) == EventsOf(r, {"ExtractCandidateObjects"}) # {}

\* the candidate sequence the extractor returned to run r
Extracted(r) ==
  IF HasExtracted(r)
  THEN trace[r][CHOOSE k \in EventsOf(r, {"ExtractCandidateObjects"}) : TRUE].result
  ELSE <<>>

\* the accumulator signalled InsufficientFrames to run r
InsufficientFrames(r) ==
  \E k \in EventsOf(r, {"AccumulatePointClouds"}) :
    trace[r][k].result.signal = "InsufficientFrames"

\* candidate j of run r was meshed, with faces or without
Meshed(r, j) ==
  \E k \in EventsOf(r, MeshOps) : trace[r][k].idx = j

MeshedWithFaces(r, j) ==
  \E k \in EventsOf(r, MeshOps) :
    trace[r][k].idx = j /\ trace[r][k].result.faces # "none"

\* the meshes the driver holds: m_operating_mesh is its only mesh field
HeldMeshes == {m_operating_mesh}

-----------------------------------------------------------------------------
(* Claims *)

\* C1: in every run in which the extractor returns an empty candidate
\* sequence, the Mesh Builder and the occlusion stages are never invoked,
\* and the response of the run is success = false.
C1_NoCandidatesNoMeshing ==
  \A r \in Runs :
    (HasExtracted(r) /\ Extracted(r) = <<>>) =>
      /\ EventsOf(r, MeshOps \cup OcclusionOps) = {}
      /\ Done(r) => (response[r].success = FALSE)

\* C1 witness: a run whose extractor returned no candidate has returned
C1_Witness ==
  \E r \in Runs : Done(r) /\ HasExtracted(r) /\ Extracted(r) = <<>>

\* C2 (as claimed): a finished run with N >= 1 candidates has success =
\* true exactly if at least one candidate reached a non-failed state, that
\* is, was meshed with at least one face.
C2_FaithfulReduction ==
  \A r \in Runs :
    (Done(r) /\ Len(Extracted(r)) >= 1) =>
      (response[r].success <=>
         \E j \in 0..(Len(Extracted(r)) - 1) : MeshedWithFaces(r, j))

\* C3 (as claimed): a run to which the accumulator signalled
\* InsufficientFrames invokes neither extractor, Mesh Builder nor occlusion
\* stage, and its response is success = false.
C3_InsufficientFramesAborts ==
  \A r \in Runs :
    InsufficientFrames(r) =>
      /\ EventsOf(r, {"ExtractCandidateObjects"} \cup MeshOps
                       \cup OcclusionOps) = {}
      /\ Done(r) => (response[r].success = FALSE)

\* C4: in a finished run with N >= 1 candidates every candidate 0..N-1 was
\* meshed, whatever the outcome of the others, and a run with a degenerate
\* and a valid candidate has success = true.
C4_FailIsolation ==
  \A r \in Runs :
    LET candidates == Extracted(r)
    IN  (Done(r) /\ Len(candidates) >= 1) =>
          /\ \A j \in 0..(Len(candidates) - 1) : Meshed(r, j)
          /\ ( /\ \E a \in 1..Len(candidates) : candidates[a] = "degenerate"
               /\ \E b \in 1..Len(candidates) : candidates[b] = "valid" )
             => (response[r].success = TRUE)

\* C4 witness: a run with a degenerate candidate followed by another
\* candidate, and with a valid candidate, has finished
C4_Witness ==
  \E r \in Runs :
    /\ Done(r)
    /\ Len(Extracted(r)) >= 2
    /\ Extracted(r)[1] = "degenerate"
    /\ \E b \in 1..Len(Extracted(r)) : Extracted(r)[b] = "valid"

\* C5 (as claimed): when a run with N >= 1 candidates has finished, the
\* driver holds a mesh for every candidate index 0..N-1 of the run.
C5_AllOutcomesHeld ==
  \A r \in Runs :
    (Done(r) /\ (\A q \in Runs : q > r => pc[q] \in {"unsent", "queued"})
             /\ Len(Extracted(r)) >= 1) =>
      \A j \in 0..(Len(Extracted(r)) - 1) :
        \E m \in HeldMeshes : m.source = CandidateName(j)

\* C6 (as claimed): a finished run with exactly one valid candidate under
\* repair mode DetectAndRepair has success = true and a repaired mesh with
\* faces for the candidate.
C6_RepairedMeshPresent ==
  \A r \in Runs :
    \A repair_mode \in RepairModes :
      (Done(r) /\ Extracted(r) = <<"valid">>
               /\ repair_mode = "DetectAndRepair") =>
        /\ response[r].success = TRUE
        /\ \E k \in EventsOf(r, {"Repair"}) :
             trace[r][k].idx = 0 /\ trace[r][k].result.faces # "none"

\* C7 (as claimed): for every meshed candidate of a finished run the
\* repair mode decides the occlusion stages: Skip none, DetectOnly
\* DetectOcclusion and no Repair, DetectAndRepair DetectOcclusion and then
\* Repair.
C7_RepairModeDecidesStages ==
  \A r \in Runs :
    Done(r) =>
      \A repair_mode \in RepairModes : \A k \in EventsOf(r, MeshOps) :
        LET detects == {d \in EventsOf(r, {"DetectOcclusion"}) :
                          trace[r][d].idx = trace[r][k].idx}
            repairs == {p \in EventsOf(r, {"Repair"}) :
                          trace[r][p].idx = trace[r][k].idx}
        IN  /\ repair_mode = "Skip" => (detects = {} /\ repairs = {})
            /\ repair_mode = "DetectOnly" => (detects # {} /\ repairs = {})
            /\ repair_mode = "DetectAndRepair" =>
                 \E d \in detects : \E p \in repairs : d < p

\* C8: at most one service call is executing the callback at any time
C8_SingleFlight ==
  Cardinality({r \in Runs : InFlight(r)}) <= 1

\* C8 witness: a second call has arrived and waits while a run is in flight
C8_Witness ==
  \E r \in Runs : \E q \in Runs : InFlight(r) /\ pc[q] = "queued"

\* the stages that are handed an artifact name, and those of them through
\* which the driver itself writes the artifact of a pipeline stage
NamedOps ==
  {"WriteToPCD", "ExtractCandidateObjects", "WriteMultipleToPCD",
   "ConvertCloudToMesh"}

WriteOps == {"WriteToPCD", "WriteMultipleToPCD", "ConvertCloudToMesh"}

\* the value of a decimal digit
DigitValue(c) ==
  CASE c = "0" -> 0 [] c = "1" -> 1 [] c = "2" -> 2 [] c = "3" -> 3
    [] c = "4" -> 4 [] c = "5" -> 5 [] c = "6" -> 6 [] c = "7" -> 7
    [] c = "8" -> 8 [] c = "9" -> 9

\* the stage number an artifact name starts with, after the directory
StageNumber(name) ==
  LET at == Len(m_output_directory) + 1
  IN  10 * DigitValue(SubSeq(name, at, at))
        + DigitValue(SubSeq(name, at + 1, at + 1))

\* the stage numbers of the names run r handed to the stages ops are
\* non-decreasing in the order of the invocations
NonDecreasing(r, ops) ==
  LET named  == EventsOf(r, ops)
      number == [k \in named |-> StageNumber(trace[r][k].name)]
  IN  \A k1 \in named : \A k2 \in named :
        k1 < k2 => number[k1] <= number[k2]

\* C9 (as claimed): within a run the stage numbers of the artifact names
\* handed to the stages are non-decreasing in the order of the
\* invocations.
C9_PrefixesFollowStageOrder ==
  \A r \in Runs : NonDecreasing(r, NamedOps)

\* C9 (amended): within a run the stage numbers of the names under which
\* the driver writes the accumulated cloud (01), the candidate set (02)
\* and each candidate (03) are non-decreasing in the order of the writes;
\* the name handed to the extractor is numbered 00, out of stage order.
C9_WritePrefixesFollowStageOrder ==
  \A r \in Runs :
    LET named  == EventsOf(r, NamedOps)
        number == [k \in named |-> StageNumber(trace[r][k].name)]
    IN  /\ \A k1 \in named : \A k2 \in named :
             (k1 < k2 /\ trace[r][k1].op \in WriteOps /\ trace[r][k2].op \in WriteOps)
               => number[k1] <= number[k2]
        /\ \A k \in named :
             number[k] = CASE trace[r][k].op = "WriteToPCD" -> 1
                           [] trace[r][k].op = "WriteMultipleToPCD" -> 2
                           [] trace[r][k].op = "ConvertCloudToMesh" -> 3
                           [] trace[r][k].op = "ExtractCandidateObjects" -> 0

\* C9 witness: a run has written the accumulated cloud, the candidate set
\* and a candidate
C9_Witness ==
  \E r \in Runs : Done(r) /\ EventsOf(r, MeshOps) # {}

\* C10: within a run no two invocations are handed the same artifact
\* name: the name of candidate i differs from that of every other
\* candidate and from the accumulated-cloud, debugging and candidate-set
\* names.
C10_NamesDistinct ==
  \A r \in Runs :
    LET named == EventsOf(r, NamedOps)
    IN  \A k1 \in named : \A k2 \in named :
          k1 < k2 => trace[r][k1].name # trace[r][k2].name

\* C10 witness: a run with at least two candidates has meshed them all
C10_Witness ==
  \E r \in Runs : Done(r) /\ Cardinality(EventsOf(r, MeshOps)) >= 2

\* C11: within a run the extractor is invoked only after the accumulator
\* has returned, the Mesh Builder is invoked for a candidate only after
\* the extractor has returned the sequence holding that candidate, and
\* the run returns its response only after every candidate of the
\* sequence has been meshed, after which no stage is invoked for it.
C11_StageOrdering ==
  \A r \in Runs :
    LET accumulated == EventsOf(r, {"AccumulatePointClouds"})
        extracted   == EventsOf(r, {"ExtractCandidateObjects"})
        meshed      == EventsOf(r, MeshOps)
        candidates  == Extracted(r)
    IN  /\ \A e \in extracted : \E a \in accumulated : a < e
        /\ \A m \in meshed :
             \E e \in extracted : e < m /\ trace[r][m].idx < Len(trace[r][e].result)
        /\ Done(r) =>
             /\ \A j \in 0..(Len(candidates) - 1) :
                  \E m \in meshed : trace[r][m].idx = j
             /\ Cardinality(meshed) = Len(candidates)

\* C11 witness: a run with two or more candidates has returned
C11_Witness ==
  \E r \in Runs : Done(r) /\ Len(Extracted(r)) >= 2 /\ response[r].success

\* C14: in a run with N >= 1 candidates the Mesh Builder is invoked in
\* ascending index order, each time with the name 03-ObjectCandidate-<i>
\* and the candidate of its own index i, and once the run has returned
\* exactly once for every index 0..N-1; the candidates are published and
\* written as 02-ObjectCandidates exactly once each, before the first mesh
\* is built.
C14_MeshOncePerIndexInOrder ==
  \A r \in Runs :
    LET meshed     == EventsOf(r, MeshOps)
        published  == EventsOf(r, {"PublishObjectCandidates"})
        written    == EventsOf(r, {"WriteMultipleToPCD"})
        candidates == Extracted(r)
    IN  /\ \A m \in meshed :
             /\ trace[r][m].name =
                  m_output_directory \o "03-ObjectCandidate-"
                                     \o ToString(trace[r][m].idx)
             /\ trace[r][m].idx < Len(candidates)
             /\ trace[r][m].result.faces =
                  (IF candidates[trace[r][m].idx + 1] = "degenerate"
                   THEN "none" ELSE "some")
             /\ Cardinality({k \in meshed : k < m}) = trace[r][m].idx
             /\ \E p \in published : p < m
             /\ \E w \in written :
                  /\ w < m
                  /\ trace[r][w].name = m_output_directory \o "02-ObjectCandidates"
        /\ Cardinality(published) <= 1
        /\ Cardinality(written) <= 1
        /\ (Done(r) /\ Len(candidates) >= 1) =>
             /\ Cardinality(meshed) = Len(candidates)
             /\ Cardinality(published) = 1
             /\ Cardinality(written) = 1

\* C14 witness: a run has meshed two or more candidates and returned
C14_Witness ==
  \E r \in Runs :
    /\ Done(r)
    /\ Len(Extracted(r)) >= 2
    /\ \A j \in 0..(Len(Extracted(r)) - 1) : Meshed(r, j)

\* C15: the bool a run returns to the service transport equals the
\* success field of its response on every path; a run with no candidate
\* returns false.
C15_ReturnEqualsSuccess ==
  \A r \in Runs :
    Done(r) =>
      /\ returned[r] = response[r].success
      /\ Extracted(r) = <<>> => (returned[r] = FALSE)

\* C15 witness: a run without candidates has returned false, and a run
\* with candidates has returned true
C15_Witness ==
  /\ \E r \in Runs : Done(r) /\ Extracted(r) = <<>> /\ ~returned[r]
  /\ \E r \in Runs : Done(r) /\ Extracted(r) # <<>> /\ returned[r]

\* what the accumulator returned to run r: its signal and its cloud
AccOutput(r) ==
  trace[r][CHOOSE k \in EventsOf(r, {"AccumulatePointClouds"}) : TRUE].result

\* the stage invocations of run r, in order, without the run they belong to
RunTrace(r) ==
  LET own == trace[r]
  IN  [k \in 1..Len(own) |->
         [op |-> own[k].op, name |-> own[k].name, idx |-> own[k].idx,
          result |-> own[k].result]]

\* C16: a run reads from the member fields only what the run itself has
\* stored there (the cloud written and handed to the extractor is the one
\* its accumulator call returned, the candidates published and written are
\* the ones its extractor call returned), and two finished runs whose
\* accumulator returned the same output have the same response, return
\* value and sequence of stage invocations.
C16_RunsIndependent ==
  /\ \A r \in Runs :
       LET candidates == Extracted(r)
       IN  /\ \A w \in EventsOf(r, {"WriteToPCD"}) :
                trace[r][w].result = AccOutput(r).cloud
           /\ \A e \in EventsOf(r, {"ExtractCandidateObjects"}) :
                trace[r][e].result =
                  ExtractCandidateObjects(DebuggingName, AccOutput(r).cloud)
           /\ \A p \in EventsOf(r, {"PublishObjectCandidates",
                                     "WriteMultipleToPCD"}) :
                trace[r][p].result = candidates
  /\ \A r1 \in Runs : \A r2 \in Runs :
       (r1 < r2 /\ Done(r1) /\ Done(r2) /\ AccOutput(r1) = AccOutput(r2)) =>
         /\ response[r1] = response[r2]
         /\ returned[r1] = returned[r2]
         /\ RunTrace(r1) = RunTrace(r2)

\* C16 witness: a run with candidates has returned after an earlier run
\* that was given the same accumulator output
C16_Witness ==
  \E r1 \in Runs : \E r2 \in Runs :
    /\ r1 < r2
    /\ Done(r1)
    /\ Done(r2)
    /\ AccOutput(r1) = AccOutput(r2)
    /\ Len(Extracted(r2)) >= 1

\* a call has arrived at the node and has not been answered
Pending(r) == pc[r] = "queued" \/ InFlight(r)

\* C12: whenever a call is waiting or in flight, a moment comes at which
\* every call that has arrived has been answered, whatever its number of
\* candidates; and a run that has returned stays returned with the
\* response and return value it gave.  (A call never goes back to an
\* earlier position, so each call that arrives is eventually answered.)
C12_EveryRunReturns ==
  /\ (\E r \in Runs : Pending(r)) ~> (\A r \in Runs : ~Pending(r))
  /\ [][\A r \in Runs :
          Done(r) => /\ Done(r)'
                     /\ response'[r] = response[r]
                     /\ returned'[r] = returned[r]]_vars

\* C12 witness: a run without candidates and a run with candidates have
\* both returned
C12_Witness ==
  \E r \in Runs : \E q \in Runs :
    /\ Done(r) /\ HasExtracted(r) /\ Len(Extracted(r)) = 0
    /\ Done(q) /\ Len(Extracted(q)) = MaxCandidates

\* C13: a run that is about to publish its candidates goes on to return
\* (a moment comes at which no run is in flight) whether or not the
\* observer ever takes what was published, and it returns success = true
\* whatever the observer has taken.
C13_PublishNeverBlocks ==
  /\ (\E r \in Runs : pc[r] = "L73") ~> (\A r \in Runs : ~InFlight(r))
  /\ [](\A r \in Runs :
          (Done(r) /\ EventsOf(r, {"PublishObjectCandidates"}) # {}) =>
            response[r].success = TRUE)

\* C13 witness: a run has published and returned, and the observer has
\* taken nothing of what the runs published
C13_Witness ==
  \E r \in Runs :
    /\ Done(r)
    /\ EventsOf(r, {"PublishObjectCandidates"}) # {}
    /\ observer_inbox =
         Cardinality({q \in Runs :
                        EventsOf(q, {"PublishObjectCandidates"}) # {}})
====
